---- MODULE Spec2Model ----
(***************************************************************************)
(* Model of TreeBillboardsApp (Week7-2-TreeBillboardsApp.cpp): the frame   *)
(* loop of the control thread (Update, Draw), the ring of frame resources  *)
(* it rotates through, the GPU command queue that consumes the submitted   *)
(* frames asynchronously, the dirty counters of render items and materials *)
(* and the quarter-second wave disturbance of UpdateWaves.                 *)
(*                                                                         *)
(* Time is counted in hundredths of a second (0.25 s = 25, 0.03 s = 3).    *)
(***************************************************************************)
EXTENDS Integers, Sequences, FiniteSets, TLC

\* ------------------------------------------------------------------ bounds

\* Frames are started while mCurrentFence is below this value.
MaxFence == 8
\* Frames are started while the timer's total time stays within this value.
MaxTime == 100
MaxWavesFence == 4
\* Largest value of rand() the model draws (all residues of the modulus of
\* MathHelper::Rand(4, 123) and the wrap-around are below it).
MaxRand == 121
\* Size of the wave field whose height grid is tracked cell by cell, and the
\* number of Waves calls made on it.
GridRows == 5
GridCols == 6
MaxWavesCalls == 3
\* Frames after a stall of the process are started while the timer's total
\* time stays within this value.
MaxStallTime == 3000
\* Number of mouse events handled.
MaxMouseEvents == 3

\* ------------------------------------------------------- program constants

gNumFrameResources == 3

WavesRowCount == 128
WavesColumnCount == 128
\* Waves time step, 0.03 s.
WavesTimeStep == 3
\* The disturbance period of UpdateWaves, 0.25 s.
DisturbPeriod == 25

NumRitems == 32
NumMaterials == 7

Slots == 0 .. (gNumFrameResources - 1)
Ritems == 0 .. (NumRitems - 1)
Materials == 0 .. (NumMaterials - 1)

\* mCurrFrameResource before the first Update, VertexBufferGPU before the
\* first UpdateWaves, and "the GPU executes nothing".
Null == -1

\* MatCBIndex of the materials BuildMaterials creates.
MatGrass == 0
MatWater == 1
MatWirefence == 2
MatBricks == 3
MatTiles == 4
MatWood == 5
MatTreeSprites == 6

\* ObjCBIndex of the four render items outside the opaque layer.
WavesRitemIndex == 0
GateRitemIndex == 2
TreeSpritesRitemIndex == 31

\* enum class RenderLayer
LayerOpaque == 0
LayerTransparent == 1
LayerAlphaTested == 2
LayerAlphaTestedTreeSprites == 3

\* mAllRitems, as the sequence of ObjCBIndex values in push_back order: the
\* castle items 3..30 (lines 1322-1653), then the wave, ground, gate and tree
\* sprite items (lines 1670-1673).
AllRitems == [k \in 1 .. 28 |-> k + 2] \o <<0, 1, 2, 31>>

\* mMaterials, as the sequence of MatCBIndex values in the order of lines
\* 1259-1265.
BuiltMaterials ==
    <<MatGrass, MatWater, MatWirefence, MatTreeSprites, MatBricks, MatTiles, MatWood>>

\* The MatCBIndex of the material (Mat) of the render item with ObjCBIndex i.
RitemMat(i) ==
    CASE i = 0 -> MatWater
      [] i = 1 -> MatGrass
      [] i = 2 -> MatWirefence
      [] i = 31 -> MatTreeSprites
      [] i \in (8 .. 13) \cup (27 .. 30) -> MatTiles
      [] i \in 21 .. 22 -> MatWood
      [] OTHER -> MatBricks

\* Fault variant of the layers: the gate item is pushed to the opaque layer
\* as well as to the alpha-tested one.
RitemLayer_GateTwice(layer) ==
    CASE layer = LayerOpaque -> <<1, 2>> \o [k \in 1 .. 28 |-> k + 2]
      [] layer = LayerTransparent -> <<0>>
      [] layer = LayerAlphaTested -> <<2>>
      [] layer = LayerAlphaTestedTreeSprites -> <<31>>

\* mRitemLayer[layer], as the sequence of ObjCBIndex values in push_back order:
\* the ground item (1), then the castle items 3..30, are the opaque layer.
RitemLayer(layer) ==
    CASE layer = LayerOpaque -> <<1>> \o [k \in 1 .. 28 |-> k + 2]
      [] layer = LayerTransparent -> <<WavesRitemIndex>>
      [] layer = LayerAlphaTested -> <<GateRitemIndex>>
      [] layer = LayerAlphaTestedTreeSprites -> <<TreeSpritesRitemIndex>>

\* Fault variant of the draw order: the order of enum class RenderLayer.
DrawLayerOrder_EnumOrder ==
    <<LayerOpaque, LayerTransparent, LayerAlphaTested, LayerAlphaTestedTreeSprites>>

\* The layers in the order Draw passes them to DrawRenderItems.
DrawLayerOrder ==
    <<LayerOpaque, LayerAlphaTested, LayerAlphaTestedTreeSprites, LayerTransparent>>

\* --------------------------------------------------------- the orbit camera

\* Angles count in thousandths of a quarter of a degree, the angle of one
\* pixel of mouse travel (line 357): Pi is 720 quarter degrees, and 0.1 rad
\* is 22.918 of them.
AnglePerPixel == 1000
Pi == 720000
PhiMargin == 22918

\* The radius counts in units of 0.2, the travel of one pixel (line 369).
RadiusMin == 25
RadiusMax == 750

\* Lines 154-156: mTheta = 1.5 * Pi, mPhi = Pi / 2 - 0.1, mRadius = 50.
ThetaInit == (3 * Pi) \div 2
PhiInit == (Pi \div 2) - PhiMargin
RadiusInit == 250

\* --------------------------------------------------------------- the state

VARIABLES
    pc,                       \* position of the control thread
    mCurrFrameResourceIndex,  \* index of the current ring slot
    mCurrFrameResource,       \* the slot the frame writes through, Null at start
    Fence,                    \* FrameResource::Fence of every slot
    mCurrentFence,            \* CPU fence counter of D3DApp
    completedValue,           \* mFence->GetCompletedValue()
    queue,                    \* mCommandQueue: the work the GPU has not started
    gpuExec,                  \* slot whose command list the GPU executes, or Null
    ritemDirty,               \* RenderItem::NumFramesDirty by ObjCBIndex
    matDirty,                 \* Material::NumFramesDirty by MatCBIndex
    matTransform,             \* scrolling offsets <<tu, tv>> of every material
    objectCB,                 \* per slot: the object constants by ObjCBIndex
    materialCB,               \* per slot: the material constants by MatCBIndex
    passCB,                   \* per slot: the pass constants
    wavesVB,                  \* per slot: the dynamic wave vertex buffer
    cmdAlloc,                 \* per slot: the draws recorded in CmdListAlloc
    wavesVertexBufferGPU,     \* mWavesRitem->Geo->VertexBufferGPU (a slot)
    totalTime,                \* mTimer.TotalTime()
    deltaTime,                \* mTimer.DeltaTime()
    t_base,                   \* static t_base of UpdateWaves
    disturbArgs,              \* <<i, j, r>> of the latest Waves::Disturb call
    disturbCount,             \* number of Waves::Disturb calls so far
    wavesAccum,               \* time accumulated by Waves::Update
    wavesSteps,               \* number of simulation steps Waves::Update ran
    frameNo,                  \* number of Update calls so far
    slotLog,                  \* the slot index each Update call rotated to
    objUploaded,              \* ObjCBIndex values the latest UpdateObjectCBs copied
    objWrites,                \* per slot, per item: CopyData calls so far
    matWrites,                \* per slot, per material: CopyData calls so far
    framesSubmitted,          \* number of ExecuteCommandLists calls of Draw
    framesPresented,          \* number of Present calls that succeeded
    wavesDrawnVB,             \* per slot: the buffer its recorded wave draw reads
    failed,                   \* the call whose HRESULT failed, or NoFailure
    diagnostic,               \* TRUE once WinMain has shown "HR Failed"
    mNumRows,                 \* Waves::mNumRows of the tracked wave field
    mNumCols,                 \* Waves::mNumCols of the tracked wave field
    mCurrSolution,            \* Waves: the current heights, by row and column
    mPrevSolution,            \* Waves: the heights of the previous step
    mNormals,                 \* Waves: the normal direction of every cell
    gridTouched,              \* cells the latest Waves::Update read or wrote
    wavesCall,                \* the latest call on the tracked wave field
    wavesCalls,               \* number of calls on the tracked wave field
    mTheta,                   \* azimuth of the orbit camera
    mPhi,                     \* polar angle of the orbit camera
    mRadius,                  \* radius of the orbit camera
    mLastMousePos,            \* <<x, y>> of the latest mouse event, NoRecord at start
    mouseEvents,              \* number of mouse events handled so far
    mouseButtons              \* btnState of the latest OnMouseMove

ringVars == <<mCurrFrameResourceIndex, mCurrFrameResource, Fence, mCurrentFence>>
gpuVars == <<completedValue, queue, gpuExec>>
dirtyVars == <<ritemDirty, matDirty, matTransform>>
slotVars == <<objectCB, materialCB, passCB, wavesVB, cmdAlloc, wavesVertexBufferGPU>>
timerVars == <<totalTime, deltaTime>>
wavesVars == <<t_base, disturbArgs, disturbCount, wavesAccum, wavesSteps>>
logVars == <<frameNo, slotLog, objUploaded, objWrites, matWrites>>
drawVars == <<framesSubmitted, framesPresented, wavesDrawnVB>>
exitVars == <<failed, diagnostic>>
gridVars == <<mNumRows, mNumCols, mCurrSolution, mPrevSolution, mNormals,
              gridTouched, wavesCall, wavesCalls>>

cameraVars == <<mTheta, mPhi, mRadius, mLastMousePos, mouseEvents, mouseButtons>>

vars == <<pc, ringVars, gpuVars, dirtyVars, slotVars, timerVars, wavesVars, logVars,
          drawVars, exitVars, gridVars, cameraVars>>

\* A record of a buffer that was never written.
NoRecord == <<>>

\* No HRESULT has failed.
NoFailure == "none"

\* State after the constructor and the Build* calls of Initialize: every
\* render item and material starts with NumFramesDirty = gNumFrameResources,
\* every slot starts with Fence = 0 and empty upload buffers.
InitApp ==
    /\ pc = "Initialize"
    /\ mCurrFrameResourceIndex = 0
    /\ mCurrFrameResource = Null
    /\ Fence = [s \in Slots |-> 0]
    /\ mCurrentFence = 0
    /\ completedValue = 0
    /\ queue = <<>>
    /\ gpuExec = Null
    /\ ritemDirty = [i \in Ritems |-> gNumFrameResources]
    /\ matDirty = [m \in Materials |-> gNumFrameResources]
    /\ matTransform = [m \in Materials |-> <<0, 0>>]
    /\ objectCB = [s \in Slots |-> [i \in Ritems |-> NoRecord]]
    /\ materialCB = [s \in Slots |-> [m \in Materials |-> NoRecord]]
    /\ passCB = [s \in Slots |-> NoRecord]
    /\ wavesVB = [s \in Slots |-> NoRecord]
    /\ cmdAlloc = [s \in Slots |-> <<>>]
    /\ wavesVertexBufferGPU = Null
    /\ totalTime = 0
    /\ deltaTime = 0
    /\ t_base = 0
    /\ disturbArgs = NoRecord
    /\ disturbCount = 0
    /\ wavesAccum = 0
    /\ wavesSteps = 0
    /\ frameNo = 0
    /\ slotLog = <<>>
    /\ objUploaded = {}
    /\ objWrites = [s \in Slots |-> [i \in Ritems |-> 0]]
    /\ matWrites = [s \in Slots |-> [m \in Materials |-> 0]]
    /\ framesSubmitted = 0
    /\ framesPresented = 0
    /\ wavesDrawnVB = [s \in Slots |-> Null]
    /\ failed = NoFailure
    /\ diagnostic = FALSE
    /\ gridTouched = {}
    /\ wavesCall = NoRecord
    /\ wavesCalls = 0
    /\ mTheta = ThetaInit
    /\ mPhi = PhiInit
    /\ mRadius = RadiusInit
    /\ mLastMousePos = NoRecord
    /\ mouseEvents = 0
    /\ mouseButtons = {}

\* The application with its 128 x 128 wave field.  The frame loop carries the
\* field as its disturbance log, time accumulator and step count; the height
\* grid of that size is not tracked (NoRecord).
Init ==
    /\ InitApp
    /\ mNumRows = WavesRowCount
    /\ mNumCols = WavesColumnCount
    /\ mCurrSolution = NoRecord
    /\ mPrevSolution = NoRecord
    /\ mNormals = NoRecord

\* ------------------------------------------------------------------ the GPU

ExecCmd(s) == [op |-> "exec", slot |-> s, value |-> 0]
SignalCmd(v) == [op |-> "signal", slot |-> Null, value |-> v]

\* The GPU takes the next command list off the queue and starts executing it.
GpuBegin ==
    /\ gpuExec = Null
    /\ queue # <<>>
    /\ Head(queue).op = "exec"
    /\ gpuExec' = Head(queue).slot
    /\ queue' = Tail(queue)
    /\ UNCHANGED <<pc, ringVars, completedValue, dirtyVars, slotVars, timerVars,
                   wavesVars, logVars,
                   drawVars, exitVars, gridVars,
                   cameraVars>>

\* The GPU finishes the command list it executes.
GpuEnd ==
    /\ gpuExec # Null
    /\ gpuExec' = Null
    /\ UNCHANGED <<pc, ringVars, completedValue, queue, dirtyVars, slotVars,
                   timerVars, wavesVars, logVars,
                   drawVars, exitVars, gridVars,
                   cameraVars>>

\* The GPU reaches a Signal: all earlier work is done, the fence takes the value.
GpuSignal ==
    /\ gpuExec = Null
    /\ queue # <<>>
    /\ Head(queue).op = "signal"
    /\ completedValue' = Head(queue).value
    /\ queue' = Tail(queue)
    /\ UNCHANGED <<pc, ringVars, gpuExec, dirtyVars, slotVars, timerVars,
                   wavesVars, logVars,
                   drawVars, exitVars, gridVars,
                   cameraVars>>

\* ------------------------------------------------- start-up of the process

\* The allocator of the initialization commands (mDirectCmdListAlloc): no slot.
InitAlloc == gNumFrameResources

\* Initialize, lines 225-230: execute the initialization commands, then
\* FlushCommandQueue: advance the fence value and enqueue its Signal.
Initialize ==
    /\ pc = "Initialize"
    /\ mCurrentFence' = mCurrentFence + 1
    /\ queue' = queue \o <<ExecCmd(InitAlloc), SignalCmd(mCurrentFence + 1)>>
    /\ pc' = "FlushWait"
    /\ UNCHANGED <<mCurrFrameResourceIndex, mCurrFrameResource, Fence,
                   completedValue, gpuExec, dirtyVars, slotVars, timerVars,
                   wavesVars, logVars,
                   drawVars, exitVars, gridVars,
                   cameraVars>>

\* FlushCommandQueue, second half: the wait for the GPU ends.
FlushWait ==
    /\ pc = "FlushWait"
    /\ completedValue >= mCurrentFence
    /\ pc' = "Tick"
    /\ UNCHANGED <<ringVars, gpuVars, dirtyVars, slotVars, timerVars, wavesVars,
                   logVars,
                   drawVars, exitVars, gridVars,
                   cameraVars>>

\* ---------------------------------------------------------- the frame loop

\* D3DApp::Run: mTimer.Tick() before Update and Draw; dt is the frame length.
Tick(deltas, fenceLimit, timeLimit) ==
    /\ pc = "Tick"
    /\ mCurrentFence < fenceLimit
    /\ \E dt \in deltas :
        /\ totalTime + dt <= timeLimit
        /\ deltaTime' = dt
        /\ totalTime' = totalTime + dt
    /\ disturbArgs' = NoRecord
    /\ pc' = "UpdateCamera"
    /\ UNCHANGED <<ringVars, gpuVars, dirtyVars, slotVars, t_base, disturbCount,
                   wavesAccum, wavesSteps, logVars,
                   drawVars, exitVars, gridVars,
                   cameraVars>>

\* Update, lines 246-247: OnKeyboardInput (empty) and UpdateCamera, which
\* recomputes the view matrix from the orbit angles and touches no slot.
UpdateCamera ==
    /\ pc = "UpdateCamera"
    /\ pc' = "Advance"
    /\ UNCHANGED <<ringVars, gpuVars, dirtyVars, slotVars, timerVars, wavesVars,
                   logVars,
                   drawVars, exitVars, gridVars,
                   cameraVars>>

\* Fault variant of the rotation: the ring is walked backwards.
NextFrameResourceIndex_Back(i) == (i + (gNumFrameResources - 1)) % gNumFrameResources

\* Fault variants of the rotation: a ring one slot short, and no rotation.
NextFrameResourceIndex_ShortRing(i) == (i + 1) % (gNumFrameResources - 1)
NextFrameResourceIndex_Stay(i) == i

\* Line 250: the next index of the circular frame resource array.
NextFrameResourceIndex(i) == (i + 1) % gNumFrameResources

\* Update, lines 250-251: cycle through the circular frame resource array.
Advance ==
    /\ pc = "Advance"
    /\ mCurrFrameResourceIndex' = NextFrameResourceIndex(mCurrFrameResourceIndex)
    /\ mCurrFrameResource' = mCurrFrameResourceIndex'
    /\ frameNo' = frameNo + 1
    /\ slotLog' = Append(slotLog, mCurrFrameResourceIndex')
    /\ pc' = "FenceCheck"
    /\ UNCHANGED <<Fence, mCurrentFence, gpuVars, dirtyVars, slotVars, timerVars,
                   wavesVars, objUploaded, objWrites, matWrites,
                   drawVars, exitVars, gridVars,
                   cameraVars>>

\* Fault variants of the fence test: a comparison off by one, and a test
\* that ignores the completed value.
MustWait_OffByOne(s) == Fence[s] # 0 /\ completedValue + 1 < Fence[s]
MustWait_Always(s) == Fence[s] # 0

\* Line 255: has the GPU not yet finished the commands of slot s?
MustWait(s) == Fence[s] # 0 /\ completedValue < Fence[s]

\* Update, line 255: the test of the fence of the current frame resource.
FenceCheck ==
    /\ pc = "FenceCheck"
    /\ pc' = IF MustWait(mCurrFrameResource) THEN "FenceWait" ELSE "AnimateMaterials"
    /\ UNCHANGED <<ringVars, gpuVars, dirtyVars, slotVars, timerVars, wavesVars,
                   logVars,
                   drawVars, exitVars, gridVars,
                   cameraVars>>

\* Fault variant of the wait: the event is never signalled.
WaitSatisfied_Never(s) == FALSE

\* Fault variant of the wait: the event is signalled at once.
WaitSatisfied_AtOnce(s) == TRUE

\* Lines 258-259: the event set by SetEventOnCompletion(Fence of s) is
\* signalled once the fence has reached that value.
WaitSatisfied(s) == completedValue >= Fence[s]

\* Update, lines 257-260: WaitForSingleObject returns.
FenceWait ==
    /\ pc = "FenceWait"
    /\ WaitSatisfied(mCurrFrameResource)
    /\ pc' = "AnimateMaterials"
    /\ UNCHANGED <<ringVars, gpuVars, dirtyVars, slotVars, timerVars, wavesVars,
                   logVars,
                   drawVars, exitVars, gridVars,
                   cameraVars>>

\* Fault variant: the pass constants are written after the wave update.
UpdateSequence_WavesBeforePass ==
    <<"AnimateMaterials", "UpdateObjectCBs", "UpdateMaterialCBs", "UpdateWaves",
      "UpdateMainPassCB">>

\* Update, lines 263-267: the calls that follow the fence wait, in order.
UpdateSequence ==
    <<"AnimateMaterials", "UpdateObjectCBs", "UpdateMaterialCBs", "UpdateMainPassCB",
      "UpdateWaves">>

\* The position after call p of Update; Draw follows the last call.
AfterUpdateCall(p) ==
    LET k == CHOOSE n \in 1 .. Len(UpdateSequence) : UpdateSequence[n] = p
    IN  IF k < Len(UpdateSequence) THEN UpdateSequence[k + 1] ELSE "DrawReset"

\* The scroll offsets count in 1/1000 (tu) and 1/5000 (tv), so that
\* 0.1 * dt and 0.02 * dt are both dt hundredths of a second.
TuOne == 1000
TvOne == 5000

\* Lines 415-419: one subtraction when the offset has reached 1.
WrapOffset(t, one) == IF t >= one THEN t - one ELSE t

\* AnimateMaterials: scroll the water texture coordinates and mark it dirty.
AnimateMaterials ==
    /\ pc = "AnimateMaterials"
    /\ matTransform' = [matTransform EXCEPT ![MatWater] =
           <<WrapOffset(@[1] + deltaTime, TuOne), WrapOffset(@[2] + deltaTime, TvOne)>>]
    /\ matDirty' = [matDirty EXCEPT ![MatWater] = gNumFrameResources]
    /\ pc' = AfterUpdateCall("AnimateMaterials")
    /\ UNCHANGED <<ringVars, gpuVars, ritemDirty, slotVars, timerVars, wavesVars,
                   logVars,
                   drawVars, exitVars, gridVars,
                   cameraVars>>

\* Fault variant of the test: the last pending frame resource is skipped.
NeedsUpload_Last(numFramesDirty) == numFramesDirty > 1

\* Lines 435, 460: does the entity still have frame resources to update?
NeedsUpload(numFramesDirty) == numFramesDirty > 0

\* Fault variant of the countdown: the counter drops by two.
AfterUpload_Twice(numFramesDirty) == numFramesDirty - 2

\* Fault variant of the countdown: the counter is never decremented.
AfterUpload_Stuck(numFramesDirty) == numFramesDirty

\* Lines 447, 473: the counter after one frame resource got the update.
AfterUpload(numFramesDirty) == numFramesDirty - 1

\* The object constants of render item i (its World and TexTransform never
\* change after BuildRenderItems).
ObjectConstants(i) == <<i>>

\* UpdateObjectCBs: copy the constants of every dirty render item into the
\* current frame resource.
UpdateObjectCBs ==
    /\ pc = "UpdateObjectCBs"
    /\ LET cur == mCurrFrameResource
           dirty == {i \in Ritems : NeedsUpload(ritemDirty[i])}
       IN /\ objectCB' = [objectCB EXCEPT ![cur] =
                 [i \in Ritems |-> IF i \in dirty THEN ObjectConstants(i) ELSE @[i]]]
          /\ ritemDirty' = [i \in Ritems |->
                 IF i \in dirty THEN AfterUpload(ritemDirty[i]) ELSE ritemDirty[i]]
          /\ objUploaded' = dirty
          /\ objWrites' = [objWrites EXCEPT ![cur] =
                 [i \in Ritems |-> IF i \in dirty THEN @[i] + 1 ELSE @[i]]]
    /\ pc' = AfterUpdateCall("UpdateObjectCBs")
    /\ UNCHANGED <<ringVars, gpuVars, matDirty, matTransform, materialCB, passCB,
                   wavesVB, cmdAlloc, wavesVertexBufferGPU, timerVars, wavesVars,
                   frameNo, slotLog, matWrites,
                   drawVars, exitVars, gridVars,
                   cameraVars>>

\* UpdateMaterialCBs: the same for every dirty material.
UpdateMaterialCBs ==
    /\ pc = "UpdateMaterialCBs"
    /\ LET cur == mCurrFrameResource
           dirty == {m \in Materials : NeedsUpload(matDirty[m])}
       IN /\ materialCB' = [materialCB EXCEPT ![cur] =
                 [m \in Materials |-> IF m \in dirty THEN matTransform[m] ELSE @[m]]]
          /\ matDirty' = [m \in Materials |->
                 IF m \in dirty THEN AfterUpload(matDirty[m]) ELSE matDirty[m]]
          /\ matWrites' = [matWrites EXCEPT ![cur] =
                 [m \in Materials |-> IF m \in dirty THEN @[m] + 1 ELSE @[m]]]
    /\ pc' = AfterUpdateCall("UpdateMaterialCBs")
    /\ UNCHANGED <<ringVars, gpuVars, ritemDirty, matTransform, objectCB, passCB,
                   wavesVB, cmdAlloc, wavesVertexBufferGPU, timerVars, wavesVars,
                   frameNo, slotLog, objUploaded, objWrites,
                   drawVars, exitVars, gridVars,
                   cameraVars>>

\* UpdateMainPassCB: one pass-constant record into the current frame resource.
UpdateMainPassCB ==
    /\ pc = "UpdateMainPassCB"
    /\ passCB' = [passCB EXCEPT ![mCurrFrameResource] = <<totalTime, deltaTime>>]
    /\ pc' = AfterUpdateCall("UpdateMainPassCB")
    /\ UNCHANGED <<ringVars, gpuVars, dirtyVars, objectCB, materialCB, wavesVB,
                   cmdAlloc, wavesVertexBufferGPU, timerVars, wavesVars, logVars,
                   drawVars, exitVars, gridVars,
                   cameraVars>>

\* MathHelper::Rand(a, b) for the value r that rand() returned.
Rand(a, b, r) == a + (r % ((b - a) + 1))

\* Fault variant of the disturbance row: any row of the grid.
DisturbRow_AnyRow(r) == Rand(0, WavesRowCount - 1, r)

\* Lines 524-525: the disturbance centre for the two values rand() returned.
DisturbRow(r) == Rand(4, WavesRowCount - 5, r)
DisturbColumn(r) == Rand(4, WavesColumnCount - 5, r)

\* Fault variant of the test: a disturbance only after more than the period.
DisturbDue_Strict == (totalTime - t_base) > DisturbPeriod

\* Line 520: is a disturbance due?
DisturbDue == (totalTime - t_base) >= DisturbPeriod

\* Fault variant: the time step is never subtracted from the accumulator.
WavesAccumAfter_NoSubtract(dt) == wavesAccum + dt

\* Fault variant: a do-while loop, which steps before it tests the accumulator.
WavesStepsRun_DoWhile(dt) ==
    IF wavesAccum + dt >= WavesTimeStep THEN (wavesAccum + dt) \div WavesTimeStep
    ELSE 1

\* Fault variant: an if in place of the loop, at most one step per call.
WavesStepsRun_SingleStep(dt) ==
    IF wavesAccum + dt >= WavesTimeStep THEN 1 ELSE 0

\* Waves::Update(dt): the accumulated time after the call, and the number of
\* simulation steps the call runs (one per whole time step accumulated).
WavesAccumAfter(dt) == (wavesAccum + dt) % WavesTimeStep
WavesStepsRun(dt) == (wavesAccum + dt) \div WavesTimeStep

\* Waves::VertexCount()
WavesVertexCount == WavesRowCount * WavesColumnCount

\* BuildFrameResources, line 1195: the number of vertices every WavesVB holds.
WavesVBCapacity == WavesVertexCount

\* Fault variant: the copy loop tests i <= VertexCount.
WavesCopyEnd_Inclusive == WavesVertexCount + 1

\* Line 537: the copy loop runs i = 0, 1, ... while i < VertexCount and calls
\* CopyData(i, v) once per i; the buffer records the number of calls (count)
\* and the last index written (last).
WavesCopyEnd == WavesVertexCount

\* UpdateWaves: the due disturbance, the simulation update, the copy of the
\* wave vertices into the current frame resource and the repointing of the
\* wave render item. rands are the pairs of values the two rand() calls may
\* return, mags the magnitudes (in hundredths) RandF(0.2, 0.5) may return.
UpdateWaves(rands, mags) ==
    /\ pc = "UpdateWaves"
    /\ IF DisturbDue
       THEN /\ t_base' = t_base + DisturbPeriod
            /\ \E rr \in rands, r \in mags :
                   disturbArgs' = <<DisturbRow(rr[1]), DisturbColumn(rr[2]), r>>
            /\ disturbCount' = disturbCount + 1
       ELSE UNCHANGED <<t_base, disturbArgs, disturbCount>>
    /\ wavesAccum' = WavesAccumAfter(deltaTime)
    /\ wavesSteps' = wavesSteps + WavesStepsRun(deltaTime)
    /\ wavesVB' = [wavesVB EXCEPT ![mCurrFrameResource] =
           [count |-> WavesCopyEnd, last |-> WavesCopyEnd - 1,
            disturbs |-> disturbCount', steps |-> wavesSteps']]
    /\ wavesVertexBufferGPU' = mCurrFrameResource
    /\ pc' = AfterUpdateCall("UpdateWaves")
    /\ UNCHANGED <<ringVars, gpuVars, dirtyVars, objectCB, materialCB, passCB,
                   cmdAlloc, timerVars, logVars,
                   drawVars, exitVars, gridVars,
                   cameraVars>>

\* Draw, lines 272-280: reset the command allocator of the current frame
\* resource and the command list that records into it.
DrawReset ==
    /\ pc = "DrawReset"
    /\ cmdAlloc' = [cmdAlloc EXCEPT ![mCurrFrameResource] = <<>>]
    /\ wavesDrawnVB' = [wavesDrawnVB EXCEPT ![mCurrFrameResource] = Null]
    /\ pc' = "DrawRecord"
    /\ UNCHANGED <<ringVars, gpuVars, dirtyVars, objectCB, materialCB, passCB,
                   wavesVB, wavesVertexBufferGPU, timerVars, wavesVars, logVars,
                   framesSubmitted, framesPresented, exitVars, gridVars,
                   cameraVars>>

\* DrawRenderItems for the layers order[k..], one after the other: the draws
\* recorded, each as the ObjCBIndex of its render item.
RECURSIVE DrawLayersFrom(_, _)
DrawLayersFrom(order, k) ==
    IF k > Len(order) THEN <<>>
    ELSE RitemLayer(order[k]) \o DrawLayersFrom(order, k + 1)

\* Draw, lines 282-320: record the four DrawRenderItems calls and close.
\* The draw of the wave item takes its vertex buffer view from
\* Geo->VertexBufferGPU at the time it is recorded (line 1686).
DrawRecord ==
    /\ pc = "DrawRecord"
    /\ cmdAlloc' = [cmdAlloc EXCEPT ![mCurrFrameResource] =
           @ \o DrawLayersFrom(DrawLayerOrder, 1)]
    /\ wavesDrawnVB' = [wavesDrawnVB EXCEPT ![mCurrFrameResource] = wavesVertexBufferGPU]
    /\ pc' = "Execute"
    /\ UNCHANGED <<ringVars, gpuVars, dirtyVars, objectCB, materialCB, passCB,
                   wavesVB, wavesVertexBufferGPU, timerVars, wavesVars, logVars,
                   framesSubmitted, framesPresented, exitVars, gridVars,
                   cameraVars>>

\* Draw, lines 323-328: ExecuteCommandLists and Present.
Execute ==
    /\ pc = "Execute"
    /\ queue' = Append(queue, ExecCmd(mCurrFrameResource))
    /\ framesSubmitted' = framesSubmitted + 1
    /\ framesPresented' = framesPresented + 1
    /\ pc' = "Stamp"
    /\ UNCHANGED <<ringVars, completedValue, gpuExec, dirtyVars, slotVars,
                   timerVars, wavesVars, logVars, wavesDrawnVB, exitVars, gridVars,
                   cameraVars>>

\* Fault variant of the stamp: the value before the increment.
StampValue_Stale(newFence) == newFence - 1

\* Line 331: the fence value stamped on the slot, given ++mCurrentFence.
StampValue(newFence) == newFence

\* Fault variant: the stamp goes to the slot of the frame to come.
StampedSlot_Next == NextFrameResourceIndex(mCurrFrameResourceIndex)

\* Line 331: the slot that receives the stamp, mCurrFrameResource.
StampedSlot == mCurrFrameResource

\* Draw, line 331: mCurrFrameResource->Fence = ++mCurrentFence.
Stamp ==
    /\ pc = "Stamp"
    /\ mCurrentFence' = mCurrentFence + 1
    /\ Fence' = [Fence EXCEPT ![StampedSlot] = StampValue(mCurrentFence')]
    /\ pc' = "Signal"
    /\ UNCHANGED <<mCurrFrameResourceIndex, mCurrFrameResource, gpuVars, dirtyVars,
                   slotVars, timerVars, wavesVars, logVars,
                   drawVars, exitVars, gridVars,
                   cameraVars>>

\* Draw, line 336: mCommandQueue->Signal(mFence, mCurrentFence).
Signal ==
    /\ pc = "Signal"
    /\ queue' = Append(queue, SignalCmd(mCurrentFence))
    /\ pc' = "Tick"
    /\ UNCHANGED <<ringVars, completedValue, gpuExec, dirtyVars, slotVars,
                   timerVars, wavesVars, logVars,
                   drawVars, exitVars, gridVars,
                   cameraVars>>

\* ----------------------------------------------------------- mouse handlers

MK_LBUTTON == "MK_LBUTTON"
MK_RBUTTON == "MK_RBUTTON"

\* MathHelper::Clamp(x, low, high)
Clamp(x, low, high) == IF x < low THEN low ELSE IF x > high THEN high ELSE x

\* Fault variant: the polar angle is not restricted.
PhiAfterMove_Unclamped(phi, dy) == phi + AnglePerPixel * dy

\* Lines 358-365: the polar angle after a left-button move of dy pixels.
PhiAfterMove(phi, dy) ==
    Clamp(phi + AnglePerPixel * dy, PhiMargin, Pi - PhiMargin)

\* Lines 370-377: the radius after a right-button move of <<dx, dy>> pixels.
RadiusAfterMove(radius, dx, dy) == Clamp(radius + (dx - dy), RadiusMin, RadiusMax)

\* OnMouseDown: a message of the window, dispatched by D3DApp::Run between
\* two frames.
OnMouseDown(x, y) ==
    /\ pc = "Tick"
    /\ mouseEvents < MaxMouseEvents
    /\ mLastMousePos' = <<x, y>>
    /\ mouseEvents' = mouseEvents + 1
    /\ UNCHANGED <<pc, ringVars, gpuVars, dirtyVars, slotVars, timerVars, wavesVars,
                   logVars, drawVars, exitVars, gridVars, mTheta, mPhi, mRadius,
                   mouseButtons>>

\* OnMouseMove.  mLastMousePos has no initializer: a move that arrives before
\* any OnMouseDown reads some position, one of lasts.
OnMouseMove(btnState, x, y, lasts) ==
    /\ pc = "Tick"
    /\ mouseEvents < MaxMouseEvents
    /\ \E last \in (IF mLastMousePos = NoRecord THEN lasts ELSE {mLastMousePos}) :
          IF MK_LBUTTON \in btnState
          THEN /\ mTheta' = mTheta + AnglePerPixel * (x - last[1])
               /\ mPhi' = PhiAfterMove(mPhi, y - last[2])
               /\ UNCHANGED mRadius
          ELSE IF MK_RBUTTON \in btnState
          THEN /\ mRadius' = RadiusAfterMove(mRadius, x - last[1], y - last[2])
               /\ UNCHANGED <<mTheta, mPhi>>
          ELSE UNCHANGED <<mTheta, mPhi, mRadius>>
    /\ mLastMousePos' = <<x, y>>
    /\ mouseEvents' = mouseEvents + 1
    /\ mouseButtons' = btnState
    /\ UNCHANGED <<pc, ringVars, gpuVars, dirtyVars, slotVars, timerVars, wavesVars,
                   logVars, drawVars, exitVars, gridVars>>

\* ------------------------------------------------ failures and termination

\* The calls of a frame whose HRESULT goes through ThrowIfFailed: lines 258,
\* 276, 280, 320 and 327.
SetEventFailure == "SetEventOnCompletion"
AllocResetFailure == "CmdListAlloc->Reset"
ListResetFailure == "mCommandList->Reset"
CloseFailure == "mCommandList->Close"
PresentFailure == "Present"
FrameFailures ==
    {SetEventFailure, AllocResetFailure, ListResetFailure, CloseFailure, PresentFailure}

\* WinMain, line 171: Initialize returned false, the device was not created.
InitializeFalse == "Initialize"

\* ThrowIfFailed on a failed call: the DxException leaves Update or Draw and
\* Run, and the unwinding of WinMain's try block destroys the application.
Throw(call) ==
    /\ failed' = call
    /\ pc' = "Destructor"
    /\ UNCHANGED diagnostic

\* Line 171: Initialize fails before it creates the device and returns false.
InitializeFails ==
    /\ pc = "Initialize"
    /\ failed' = InitializeFalse
    /\ pc' = "Destructor"
    /\ UNCHANGED <<ringVars, gpuVars, dirtyVars, slotVars, timerVars, wavesVars,
                   logVars, drawVars, diagnostic, gridVars,
                   cameraVars>>

\* Line 258: SetEventOnCompletion fails when Update has to wait.
SetEventFails ==
    /\ pc = "FenceCheck"
    /\ MustWait(mCurrFrameResource)
    /\ Throw(SetEventFailure)
    /\ UNCHANGED <<ringVars, gpuVars, dirtyVars, slotVars, timerVars, wavesVars,
                   logVars, drawVars, gridVars,
                   cameraVars>>

\* Line 276: the reset of the command allocator fails.
AllocResetFails ==
    /\ pc = "DrawReset"
    /\ Throw(AllocResetFailure)
    /\ UNCHANGED <<ringVars, gpuVars, dirtyVars, slotVars, timerVars, wavesVars,
                   logVars, drawVars, gridVars,
                   cameraVars>>

\* Line 280: the allocator was reset, the reset of the command list fails.
ListResetFails ==
    /\ pc = "DrawReset"
    /\ cmdAlloc' = [cmdAlloc EXCEPT ![mCurrFrameResource] = <<>>]
    /\ wavesDrawnVB' = [wavesDrawnVB EXCEPT ![mCurrFrameResource] = Null]
    /\ Throw(ListResetFailure)
    /\ UNCHANGED <<ringVars, gpuVars, dirtyVars, objectCB, materialCB, passCB,
                   wavesVB, wavesVertexBufferGPU, timerVars, wavesVars, logVars,
                   framesSubmitted, framesPresented, gridVars,
                   cameraVars>>

\* Line 320: the draws were recorded, Close fails.
CloseFails ==
    /\ pc = "DrawRecord"
    /\ cmdAlloc' = [cmdAlloc EXCEPT ![mCurrFrameResource] =
           @ \o DrawLayersFrom(DrawLayerOrder, 1)]
    /\ wavesDrawnVB' = [wavesDrawnVB EXCEPT ![mCurrFrameResource] = wavesVertexBufferGPU]
    /\ Throw(CloseFailure)
    /\ UNCHANGED <<ringVars, gpuVars, dirtyVars, objectCB, materialCB, passCB,
                   wavesVB, wavesVertexBufferGPU, timerVars, wavesVars, logVars,
                   framesSubmitted, framesPresented, gridVars,
                   cameraVars>>

\* Line 327: the command list was handed to the queue, Present fails.
PresentFails ==
    /\ pc = "Execute"
    /\ queue' = Append(queue, ExecCmd(mCurrFrameResource))
    /\ framesSubmitted' = framesSubmitted + 1
    /\ Throw(PresentFailure)
    /\ UNCHANGED <<ringVars, completedValue, gpuExec, dirtyVars, slotVars,
                   timerVars, wavesVars, logVars, framesPresented, wavesDrawnVB,
                   gridVars,
                   cameraVars>>

\* D3DApp::Run leaves the message loop between two frames (WM_QUIT) and
\* WinMain destroys the application.
Quit ==
    /\ pc = "Tick"
    /\ pc' = "Destructor"
    /\ UNCHANGED <<ringVars, gpuVars, dirtyVars, slotVars, timerVars, wavesVars,
                   logVars, drawVars, exitVars, gridVars,
                   cameraVars>>

\* md3dDevice != nullptr: the device exists once Initialize has created it.
md3dDeviceLive == failed # InitializeFalse

\* Fault variant: the destructor releases the members without the flush.
DestructorFlushes_Never == FALSE

\* Line 191: the destructor flushes the command queue if the device exists.
DestructorFlushes == md3dDeviceLive

\* ~TreeBillboardsApp, lines 189-193, with the first half of
\* FlushCommandQueue: advance the fence value and enqueue its Signal.
Destructor ==
    /\ pc = "Destructor"
    /\ IF DestructorFlushes
       THEN /\ mCurrentFence' = mCurrentFence + 1
            /\ queue' = Append(queue, SignalCmd(mCurrentFence + 1))
            /\ pc' = "DestructorWait"
       ELSE /\ pc' = "Released"
            /\ UNCHANGED <<mCurrentFence, queue>>
    /\ UNCHANGED <<mCurrFrameResourceIndex, mCurrFrameResource, Fence,
                   completedValue, gpuExec, dirtyVars, slotVars, timerVars,
                   wavesVars, logVars, drawVars, exitVars, gridVars,
                   cameraVars>>

\* FlushCommandQueue, second half: the wait ends; the members of the
\* application, the frame resources among them, are released.
DestructorWait ==
    /\ pc = "DestructorWait"
    /\ completedValue >= mCurrentFence
    /\ pc' = "Released"
    /\ UNCHANGED <<ringVars, gpuVars, dirtyVars, slotVars, timerVars, wavesVars,
                   logVars, drawVars, exitVars, gridVars,
                   cameraVars>>

\* Fault variant: the handler swallows the exception.
CatchDiagnostic_Silent(f) == FALSE

\* WinMain, lines 177-181: a DxException reaches the catch clause, which shows
\* the "HR Failed" message box; a false return of Initialize throws nothing.
CatchDiagnostic(f) == f \in FrameFailures

\* WinMain returns: through the catch clause after an exception.
WinMainReturn ==
    /\ pc = "Released"
    /\ diagnostic' = CatchDiagnostic(failed)
    /\ pc' = "Exited"
    /\ UNCHANGED <<ringVars, gpuVars, dirtyVars, slotVars, timerVars, wavesVars,
                   logVars, drawVars, failed, gridVars,
                   cameraVars>>

\* ---------------------------------------------------- the wave field grid

\* Parameters of the Waves constructor call, line 207: spatial step 1.0,
\* speed 4.0, damping 0.2 (hundredths); the time step is WavesTimeStep.
WavesSpatialStep == 100
WavesSpeed == 400
WavesDamping == 20

\* Heights are integers in units of 1/200, so that half a magnitude given in
\* hundredths is a whole number.
HeightPerHundredth == 2

\* Coefficients of the update stencil in thousandths, from the damping term
\* d = damping * dt + 2 and the Courant term e = (speed * dt / dx)^2, both
\* in units of 1/10000.
WaveKOne == 1000
WaveD == WavesDamping * WavesTimeStep + 20000
WaveE == ((WavesSpeed * WavesTimeStep) \div WavesSpatialStep) * ((WavesSpeed * WavesTimeStep) \div WavesSpatialStep)
WaveK1 == ((WavesDamping * WavesTimeStep - 20000) * WaveKOne) \div WaveD
WaveK2 == ((40000 - 8 * WaveE) * WaveKOne) \div WaveD
WaveK3 == (2 * WaveE * WaveKOne) \div WaveD

\* Waves::Disturb requires its centre this many cells away from every edge.
DisturbMargin == 2

GridCells == (0 .. mNumRows - 1) \X (0 .. mNumCols - 1)
InGrid(c) == c \in GridCells

\* A grid of the field's size with every height zero (the constructor).
FlatGrid(rows, cols) == [i \in 0 .. rows - 1 |-> [j \in 0 .. cols - 1 |-> 0]]

\* Normal of a boundary vertex and of the flat grid: the up vector, scaled as
\* the interior normals (2 * dx in height units).
UpNormal == <<0, 2 * HeightPerHundredth * WavesSpatialStep, 0>>

FlatNormals(rows, cols) == [i \in 0 .. rows - 1 |-> [j \in 0 .. cols - 1 |-> UpNormal]]

\* A read of cell c.  A cell outside the grid is other memory; gridTouched
\* records every such access.
At(h, c) == IF InGrid(c) THEN h[c[1]][c[2]] ELSE 0

\* The four direct neighbours of a cell.
Neighbours(c) ==
    {<<c[1] - 1, c[2]>>, <<c[1] + 1, c[2]>>, <<c[1], c[2] - 1>>, <<c[1], c[2] + 1>>}

\* Fault variant: the impulse is spread over a plus shape two cells wide.
DisturbedCells_Wide(i, j) ==
    {<<i - 2, j>>, <<i + 2, j>>, <<i, j - 2>>, <<i, j + 2>>}

\* Waves::Disturb: the cells which receive the smaller share of the impulse.
DisturbedCells(i, j) == Neighbours(<<i, j>>)

\* Waves::Disturb(i, j, magnitude): the target cell rises by the magnitude and
\* each direct neighbour by half of it.
Disturbed(h, i, j, magnitude) ==
    [a \in DOMAIN h |-> [b \in DOMAIN h[a] |->
        IF <<a, b>> = <<i, j>> THEN h[a][b] + HeightPerHundredth * magnitude
        ELSE IF <<a, b>> \in DisturbedCells(i, j) THEN h[a][b] + magnitude
        ELSE h[a][b]]]

\* Fault variant: the stencil runs over every row, the edge rows included.
InteriorRows_AllRows == 0 .. mNumRows - 1

\* The rows and columns of the cells the stencil is applied to.
InteriorRows == 1 .. mNumRows - 2
InteriorCols == 1 .. mNumCols - 2
InteriorCells == InteriorRows \X InteriorCols

\* The interior cell nearest to a cell: the neighbour an edge cell is clamped to.
ClampIndex(k, lo, hi) == IF k < lo THEN lo ELSE IF k > hi THEN hi ELSE k
ClampSource(c) ==
    <<ClampIndex(c[1], 1, mNumRows - 2), ClampIndex(c[2], 1, mNumCols - 2)>>

\* The wave equation at an interior cell, from the previous two height states.
StepHeight(prev, curr, c) ==
    (WaveK1 * At(prev, c) + WaveK2 * At(curr, c)
     + WaveK3 * (At(curr, <<c[1] - 1, c[2]>>) + At(curr, <<c[1] + 1, c[2]>>)
                 + At(curr, <<c[1], c[2] - 1>>) + At(curr, <<c[1], c[2] + 1>>)))
    \div WaveKOne

\* One update step: the stencil on the interior cells, then every edge cell
\* takes the value of its interior neighbour.
SteppedHeights(prev, curr) ==
    LET inner == [c \in InteriorCells |-> StepHeight(prev, curr, c)]
    IN  [i \in 0 .. mNumRows - 1 |-> [j \in 0 .. mNumCols - 1 |->
            IF <<i, j>> \in InteriorCells THEN inner[<<i, j>>]
            ELSE IF ClampSource(<<i, j>>) \in InteriorCells
                 THEN inner[ClampSource(<<i, j>>)]
                 ELSE At(curr, ClampSource(<<i, j>>))]]

\* The solution after n update steps; the buffers swap at every step.
RECURSIVE WavesStepped(_, _)
WavesStepped(g, n) ==
    IF n = 0 THEN g
    ELSE WavesStepped([prev |-> g.curr, curr |-> SteppedHeights(g.prev, g.curr)], n - 1)

\* Normal direction of every vertex (before normalisation): the central
\* difference of the four neighbouring heights at an interior vertex.
NormalsOf(h) ==
    [i \in 0 .. mNumRows - 1 |-> [j \in 0 .. mNumCols - 1 |->
        IF <<i, j>> \in InteriorCells
        THEN <<At(h, <<i, j - 1>>) - At(h, <<i, j + 1>>),
               2 * HeightPerHundredth * WavesSpatialStep,
               At(h, <<i + 1, j>>) - At(h, <<i - 1, j>>)>>
        ELSE UpNormal]]

\* The cells one update step reads or writes: the stencil and the normal
\* reconstruction at every interior cell, every cell written, and the
\* neighbour every edge cell is clamped to.
TouchedByStep ==
    UNION {Neighbours(c) \cup {c} : c \in InteriorCells}
    \cup GridCells
    \cup {ClampSource(c) : c \in GridCells \ InteriorCells}

\* The rows and columns Waves::Disturb accepts as the centre of an impulse.
DisturbRows == DisturbMargin .. (mNumRows - 1) - DisturbMargin
DisturbCols == DisturbMargin .. (mNumCols - 1) - DisturbMargin

\* A call of Waves::Disturb on the tracked field.
WavesDisturb(i, j, magnitude) ==
    /\ mCurrSolution # NoRecord
    /\ wavesCalls < MaxWavesCalls
    /\ i \in DisturbRows /\ j \in DisturbCols
    /\ mCurrSolution' = Disturbed(mCurrSolution, i, j, magnitude)
    /\ disturbArgs' = <<i, j, magnitude>>
    /\ disturbCount' = disturbCount + 1
    /\ wavesCall' = [op |-> "Disturb", row |-> i, col |-> j, magnitude |-> magnitude]
    /\ wavesCalls' = wavesCalls + 1
    /\ UNCHANGED <<pc, ringVars, gpuVars, dirtyVars, slotVars, timerVars, t_base,
                   wavesAccum, wavesSteps, logVars, drawVars, exitVars, mNumRows,
                   mNumCols, mPrevSolution, mNormals, gridTouched,
                   cameraVars>>

\* A call of Waves::Update(dt) on the tracked field: the steps the accumulated
\* time pays for, then the normals of the new heights.
WavesUpdate(dt) ==
    /\ mCurrSolution # NoRecord
    /\ wavesCalls < MaxWavesCalls
    /\ LET n == WavesStepsRun(dt)
           g == WavesStepped([prev |-> mPrevSolution, curr |-> mCurrSolution], n)
       IN  /\ mPrevSolution' = g.prev
           /\ mCurrSolution' = g.curr
           /\ mNormals' = IF n > 0 THEN NormalsOf(g.curr) ELSE mNormals
           /\ gridTouched' = IF n > 0 THEN TouchedByStep ELSE {}
           /\ wavesSteps' = wavesSteps + n
           /\ wavesCall' = [op |-> "Update", dt |-> dt, steps |-> n]
    /\ wavesAccum' = WavesAccumAfter(dt)
    /\ wavesCalls' = wavesCalls + 1
    /\ UNCHANGED <<pc, ringVars, gpuVars, dirtyVars, slotVars, timerVars, t_base,
                   disturbArgs, disturbCount, logVars, drawVars, exitVars,
                   mNumRows, mNumCols,
                   cameraVars>>

\* ------------------------------------------------------- the specifications

\* Frame lengths, in hundredths of a second: a frame below the timer's
\* resolution, short frames, and frames of one and two disturbance periods.
FrameDeltas == {0, 1, 25, 50}

\* Values of rand().
RandAll == 0 .. MaxRand
Magnitudes == {20, 50}

\* The frame loop with the GPU running asynchronously beside it.
Next ==
    \/ Initialize
    \/ FlushWait
    \/ Tick({0, 25}, MaxFence, MaxTime)
    \/ UpdateCamera
    \/ Advance
    \/ FenceCheck
    \/ FenceWait
    \/ AnimateMaterials
    \/ UpdateObjectCBs
    \/ UpdateMaterialCBs
    \/ UpdateMainPassCB
    \/ UpdateWaves({<<0, MaxRand>>}, {20})
    \/ DrawReset
    \/ DrawRecord
    \/ Execute
    \/ Stamp
    \/ Signal
    \/ GpuBegin
    \/ GpuEnd
    \/ GpuSignal
    \/ InitializeFails
    \/ SetEventFails
    \/ AllocResetFails
    \/ ListResetFails
    \/ CloseFails
    \/ PresentFails
    \/ Quit
    \/ Destructor
    \/ DestructorWait
    \/ WinMainReturn

Spec == Init /\ [][Next]_vars

\* The pairs of rand() values of one disturbance: each of the two calls
\* returns every value, with the same value and with the mirrored value for
\* the other call.
RandPairs == {<<r, r>> : r \in RandAll} \cup {<<r, MaxRand - r>> : r \in RandAll}

\* The GPU has no work left.
GpuIdle == queue = <<>> /\ gpuExec = Null

\* The frame loop over every frame length and every disturbance centre, on a
\* GPU that finishes each frame before the timer ticks for the next one: the
\* fence test of Update then never has to wait.
NextWaves ==
    \/ Initialize
    \/ FlushWait
    \/ (GpuIdle /\ Tick(FrameDeltas, MaxWavesFence, MaxTime))
    \/ UpdateCamera
    \/ Advance
    \/ FenceCheck
    \/ AnimateMaterials
    \/ UpdateObjectCBs
    \/ UpdateMaterialCBs
    \/ UpdateMainPassCB
    \/ UpdateWaves(RandPairs, Magnitudes)
    \/ DrawReset
    \/ DrawRecord
    \/ Execute
    \/ Stamp
    \/ Signal
    \/ GpuBegin
    \/ GpuEnd
    \/ GpuSignal

SpecWaves == Init /\ [][NextWaves]_vars

\* Frame lengths that include a stall of the process (a debugger stop, a
\* blocked message loop) of ten and of twenty seconds.
StallDeltas == {0, 25, 1000, 2000}

\* The frame loop with stalled frames, on a GPU that finishes each frame
\* before the timer ticks for the next one.
NextStall ==
    \/ Initialize
    \/ FlushWait
    \/ (GpuIdle /\ Tick(StallDeltas, MaxWavesFence, MaxStallTime))
    \/ UpdateCamera
    \/ Advance
    \/ FenceCheck
    \/ AnimateMaterials
    \/ UpdateObjectCBs
    \/ UpdateMaterialCBs
    \/ UpdateMainPassCB
    \/ UpdateWaves({<<0, MaxRand>>}, {20})
    \/ DrawReset
    \/ DrawRecord
    \/ Execute
    \/ Stamp
    \/ Signal
    \/ GpuBegin
    \/ GpuEnd
    \/ GpuSignal

SpecStall == Init /\ [][NextStall]_vars

\* Client coordinates of the mouse, in pixels.
MouseCoords == {0, 400, 800}

\* The buttons held during a move: none, one of them, both.
ButtonStates == SUBSET {MK_LBUTTON, MK_RBUTTON}

\* The start of the process and the mouse messages of the window.
NextMouse ==
    \/ Initialize
    \/ FlushWait
    \/ GpuBegin
    \/ GpuEnd
    \/ GpuSignal
    \/ \E x \in MouseCoords, y \in MouseCoords : OnMouseDown(x, y)
    \/ \E b \in ButtonStates, x \in MouseCoords, y \in MouseCoords :
          OnMouseMove(b, x, y, MouseCoords \X MouseCoords)

SpecMouse == Init /\ [][NextMouse]_vars

\* A wave field of GridRows x GridCols cells after its construction, with its
\* height grid tracked: every height zero, every normal up.
InitGrid ==
    /\ InitApp
    /\ mNumRows = GridRows
    /\ mNumCols = GridCols
    /\ mCurrSolution = FlatGrid(GridRows, GridCols)
    /\ mPrevSolution = FlatGrid(GridRows, GridCols)
    /\ mNormals = FlatNormals(GridRows, GridCols)

\* Elapsed times passed to Waves::Update, in hundredths of a second: none,
\* less than a time step, one time step and two.
GridDeltas == {0, 2, WavesTimeStep, 2 * WavesTimeStep}

\* The calls a client may make on the wave field, in any order.
NextGrid ==
    \/ \E i \in DisturbRows, j \in DisturbCols, r \in Magnitudes : WavesDisturb(i, j, r)
    \/ \E dt \in GridDeltas : WavesUpdate(dt)

SpecGrid == InitGrid /\ [][NextGrid]_vars

\* ----------------------------------------------------------- ring properties

\* Positions of the control thread after the fence test of Update has let it
\* through and before Draw stamps a new fence value on the current slot.
AfterAdvance ==
    {"AnimateMaterials", "UpdateObjectCBs", "UpdateMaterialCBs", "UpdateMainPassCB",
     "UpdateWaves", "DrawReset", "DrawRecord", "Execute", "Stamp"}

\* Positions at which the next step of the control thread writes into the
\* current slot (its constant buffers, its wave vertices, its allocator).
SlotWriters ==
    {"UpdateObjectCBs", "UpdateMaterialCBs", "UpdateMainPassCB", "UpdateWaves",
     "DrawReset", "DrawRecord"}

\* Is a command list recorded in slot s queued or executing on the GPU?
SlotInFlight(s) ==
    \/ gpuExec = s
    \/ \E k \in 1 .. Len(queue) : queue[k].op = "exec" /\ queue[k].slot = s

\* Number of submitted frames whose command list the GPU has not finished.
FramesInFlight ==
    Cardinality({k \in 1 .. Len(queue) : queue[k].op = "exec" /\ queue[k].slot \in Slots})
    + (IF gpuExec \in Slots THEN 1 ELSE 0)

\* Number of submitted frames whose fence value the GPU has not reached: the
\* stamped ones, and the one executed but not yet stamped.
FramesUnretired ==
    LET flushed == pc \in {"DestructorWait", "Released", "Exited"} /\ md3dDeviceLive
        lastFrameFence == IF flushed THEN mCurrentFence - 1 ELSE mCurrentFence
    IN  (IF lastFrameFence > completedValue THEN lastFrameFence - completedValue ELSE 0)
        + (IF pc = "Stamp" THEN 1 ELSE 0)

\* C1: once the rotation and fence test of Update have returned, the current
\* slot was never submitted (Fence 0) or the GPU completion counter has reached
\* the fence value stamped on it.
C1_AdvanceReturnsOnlyWhenRetired ==
    pc \in AfterAdvance =>
        \/ Fence[mCurrFrameResource] = 0
        \/ completedValue >= Fence[mCurrFrameResource]

\* Update has returned from its wait on a slot that was submitted before,
\* with the GPU exactly at the stamped value and later frames still queued.
C1_Witness ==
    /\ pc = "AnimateMaterials"
    /\ Fence[mCurrFrameResource] # 0
    /\ completedValue = Fence[mCurrFrameResource]
    /\ queue # <<>>

\* C2: whenever the control thread is about to write a part of the current
\* slot, no command list submitted against that slot is queued or executing
\* on the GPU.
C2_NoWriteToSlotInFlight ==
    pc \in SlotWriters => ~SlotInFlight(mCurrFrameResource)

\* The control thread writes a reused slot while the GPU executes another one.
C2_Witness ==
    /\ pc \in SlotWriters
    /\ Fence[mCurrFrameResource] # 0
    /\ gpuExec \in Slots

\* C3: at most gNumFrameResources frames are submitted and unfinished, and at
\* most gNumFrameResources - 1 once the fence test of Update has returned and
\* the frame is not yet submitted.
C3_BoundedLead ==
    /\ FramesInFlight <= gNumFrameResources
    /\ FramesUnretired <= gNumFrameResources
    /\ pc \in (AfterAdvance \ {"Stamp"}) =>
           /\ FramesInFlight <= gNumFrameResources - 1
           /\ FramesUnretired <= gNumFrameResources - 1

\* The control thread is gNumFrameResources frames ahead and blocked.
C3_Witness ==
    /\ pc = "FenceWait"
    /\ FramesInFlight = gNumFrameResources
    /\ FramesUnretired = gNumFrameResources

\* The steps of the control thread within one frame.
FrameStep ==
    \/ UpdateCamera
    \/ Advance
    \/ FenceCheck
    \/ FenceWait
    \/ AnimateMaterials
    \/ UpdateObjectCBs
    \/ UpdateMaterialCBs
    \/ UpdateMainPassCB
    \/ UpdateWaves({<<0, MaxRand>>}, {20})
    \/ DrawReset
    \/ DrawRecord
    \/ Execute
    \/ Stamp
    \/ Signal

FramePositions ==
    {"UpdateCamera", "Advance", "FenceCheck", "FenceWait"} \cup AfterAdvance \cup {"Signal"}

\* C4: within a frame the control thread can always take its next step except
\* in the fence wait; it enters the wait only from the fence test, and only
\* when the current slot has a nonzero stamp the GPU has not reached; while it
\* waits below the stamp it stays blocked.
C4_BlocksOnlyOnUnreachedFence ==
    /\ [](pc \in (FramePositions \ {"FenceWait"}) => ENABLED FrameStep)
    /\ [](pc = "FenceWait" /\ completedValue < Fence[mCurrFrameResource]
              => ~ENABLED FrameStep)
    /\ [][(pc' = "FenceWait" /\ pc # "FenceWait") =>
              /\ pc = "FenceCheck"
              /\ Fence[mCurrFrameResource] # 0
              /\ completedValue < Fence[mCurrFrameResource]]_vars
    /\ [][(pc = "FenceCheck" /\ pc' # "FenceCheck"
               /\ (Fence[mCurrFrameResource] = 0
                     \/ completedValue >= Fence[mCurrFrameResource]))
              => pc' = "AnimateMaterials"]_vars

\* The control thread is blocked on a stamp the GPU has not reached.
C4_Witness ==
    /\ pc = "FenceWait"
    /\ Fence[mCurrFrameResource] # 0
    /\ completedValue < Fence[mCurrFrameResource]

\* Every gNumFrameResources consecutive entries of log are pairwise distinct.
WindowsDistinct(log) ==
    \A a \in 1 .. Len(log), b \in 1 .. Len(log) :
        (a < b /\ b - a < gNumFrameResources) => log[a] # log[b]

\* C5: the current index is always a slot, the current frame resource is the
\* slot of that index, the index changes only in the rotation of Update and
\* then to (previous + 1) mod gNumFrameResources, and any gNumFrameResources
\* consecutive frames use each slot once.
C5_RingRotation ==
    /\ [](/\ mCurrFrameResourceIndex \in Slots
          /\ mCurrFrameResource # Null => mCurrFrameResource = mCurrFrameResourceIndex
          /\ Len(slotLog) = frameNo
          /\ WindowsDistinct(slotLog))
    /\ [][frameNo' # frameNo =>
              /\ pc = "Advance"
              /\ mCurrFrameResourceIndex' = (mCurrFrameResourceIndex + 1) % gNumFrameResources
              /\ slotLog' = Append(slotLog, mCurrFrameResourceIndex')]_vars
    /\ [][mCurrFrameResourceIndex' # mCurrFrameResourceIndex => frameNo' = frameNo + 1]_vars

\* The ring has wrapped around twice.
C5_Witness ==
    /\ frameNo = 2 * gNumFrameResources + 1
    /\ mCurrFrameResourceIndex = 1
    /\ pc = "FenceCheck"

\* ---------------------------------------------------------- dirty counters

\* Positions of a frame after its UpdateObjectCBs call.
AfterObjectUpload ==
    {"UpdateMaterialCBs", "UpdateMainPassCB", "UpdateWaves", "DrawReset",
     "DrawRecord", "Execute", "Stamp", "Signal"}

\* C6: a render item's transform is set once, by BuildRenderItems, with its
\* dirty counter at gNumFrameResources; UpdateObjectCBs uploads its constant
\* record in each of the first gNumFrameResources frames and in no later one.
C6_DirtyPropagation ==
    pc \in AfterObjectUpload =>
        \A i \in Ritems :
            /\ (i \in objUploaded) <=> (frameNo <= gNumFrameResources)
            /\ ritemDirty[i] =
                   (IF frameNo <= gNumFrameResources
                    THEN gNumFrameResources - frameNo ELSE 0)

\* Frame gNumFrameResources + 1 has run UpdateObjectCBs and uploaded nothing.
C6_Witness ==
    /\ pc = "UpdateMaterialCBs"
    /\ frameNo = gNumFrameResources + 1
    /\ objUploaded = {}

\* The CopyData calls entity e got over the slots 0 .. s, by the counts w.
RECURSIVE WritesUpTo(_, _, _)
WritesUpTo(w, e, s) ==
    IF s < 0 THEN 0 ELSE w[s][e] + WritesUpTo(w, e, s - 1)

\* The materials other than water are changed once, by BuildMaterials.
StaticMaterials == Materials \ {MatWater}

\* C7: for an entity changed once, no slot gets its record twice, the number
\* of slots that got it is gNumFrameResources minus the dirty counter, and
\* when the counter is zero every slot got it once and holds it.
C7_EverySlotOnce ==
    /\ \A i \in Ritems :
        /\ \A s \in Slots : objWrites[s][i] <= 1
        /\ WritesUpTo(objWrites, i, gNumFrameResources - 1)
               = gNumFrameResources - ritemDirty[i]
        /\ ritemDirty[i] = 0 =>
               \A s \in Slots :
                   objWrites[s][i] = 1 /\ objectCB[s][i] = <<i>>
    /\ \A m \in StaticMaterials :
        /\ \A s \in Slots : matWrites[s][m] <= 1
        /\ WritesUpTo(matWrites, m, gNumFrameResources - 1)
               = gNumFrameResources - matDirty[m]
        /\ matDirty[m] = 0 =>
               \A s \in Slots :
                   matWrites[s][m] = 1 /\ materialCB[s][m] = <<0, 0>>

\* Every counter of a once-changed entity has run down to zero, several
\* frames ago.
C7_Witness ==
    /\ frameNo > gNumFrameResources + 1
    /\ \A i \in Ritems : ritemDirty[i] = 0
    /\ \A m \in StaticMaterials : matDirty[m] = 0

\* ------------------------------------------------------------- draw order

\* The position of a render item's layer in the order opaque, alpha-tested,
\* alpha-tested tree sprites, transparent.
LayerRank(i) ==
    CASE i = WavesRitemIndex -> 4
      [] i = TreeSpritesRitemIndex -> 3
      [] i = GateRitemIndex -> 2
      [] OTHER -> 1

\* The draws of a command list never step back to an earlier layer.
LayersInOrder(draws) ==
    \A a \in 1 .. (Len(draws) - 1) : LayerRank(draws[a]) <= LayerRank(draws[a + 1])

\* C8: every recorded command list draws its items layer by layer in the
\* order opaque, alpha-tested, tree sprites, transparent; the list a frame
\* submits draws every render item once, the wave item last.
C8_LayerOrder ==
    /\ \A s \in Slots : LayersInOrder(cmdAlloc[s])
    /\ pc = "Execute" =>
        LET draws == cmdAlloc[mCurrFrameResource]
        IN /\ Len(draws) = NumRitems
           /\ {draws[k] : k \in 1 .. Len(draws)} = Ritems
           /\ draws[Len(draws)] = WavesRitemIndex

\* A frame is about to submit its recorded command list.
C8_Witness ==
    /\ pc = "Execute"
    /\ Len(cmdAlloc[mCurrFrameResource]) = NumRitems
    /\ frameNo > 1

\* ------------------------------------------------------ wave disturbances

\* C9: when UpdateWaves has returned, the number of Waves::Disturb calls so
\* far is the number of whole quarter seconds of the timer's total time,
\* however that time was divided into frames.
C9_OneDisturbPerQuarterSecond ==
    pc = "DrawReset" => disturbCount = totalTime \div DisturbPeriod

\* C10: the centre of every disturbance UpdateWaves issues lies at least two
\* cells from every edge of the grid.
C10_DisturbCentreInMargin ==
    disturbArgs # NoRecord =>
        /\ 2 <= disturbArgs[1] /\ disturbArgs[1] <= WavesRowCount - 3
        /\ 2 <= disturbArgs[2] /\ disturbArgs[2] <= WavesColumnCount - 3

\* A disturbance at the largest row and column Rand can return.
C10_Witness ==
    /\ pc = "DrawReset"
    /\ disturbArgs # NoRecord
    /\ disturbArgs[1] = WavesRowCount - 5
    /\ disturbArgs[2] = WavesColumnCount - 5

\* ----------------------------------------------------- wave field properties

\* The step just taken is a call of Waves::Update on the tracked field.
UpdateCalled == wavesCalls' = wavesCalls + 1 /\ wavesCall'.op = "Update"

\* The step just taken is a call of Waves::Disturb on the tracked field.
DisturbCalled == wavesCalls' = wavesCalls + 1 /\ wavesCall'.op = "Disturb"

\* The latest call on the tracked field was Waves::Update.
LastCallUpdate == wavesCall # NoRecord /\ wavesCall.op = "Update"

\* The grid state of the field: both height states and the normals.
gridState == <<mCurrSolution, mPrevSolution, mNormals>>

\* C11 as stated: every Update call with an elapsed time below one time step
\* runs zero simulation steps and leaves every height unchanged, whatever time
\* the field has accumulated before.
C11_ShortUpdateNeverSteps ==
    [][(UpdateCalled /\ wavesCall'.dt < WavesTimeStep)
       => (wavesCall'.steps = 0 /\ mCurrSolution' = mCurrSolution)]_vars

\* C11, amended: an Update call whose elapsed time, added to the time the
\* field has accumulated, stays below one time step runs zero simulation
\* steps and leaves every height unchanged.
C11_ShortUpdateBelowStepKeepsHeights ==
    [][(UpdateCalled /\ wavesAccum + wavesCall'.dt < WavesTimeStep)
       => (wavesCall'.steps = 0 /\ wavesSteps' = wavesSteps
           /\ mCurrSolution' = mCurrSolution /\ mPrevSolution' = mPrevSolution)]_vars

\* A disturbed field took an Update of less than a time step and ran no step.
C11_Witness ==
    /\ LastCallUpdate
    /\ wavesCall.dt > 0 /\ wavesCall.dt < WavesTimeStep
    /\ wavesCall.steps = 0
    /\ wavesAccum = wavesCall.dt
    /\ disturbCount > 0

C13_ZeroUpdateIdempotent ==
    [][(UpdateCalled /\ wavesCall'.dt = 0)
       => (gridState' = gridState /\ wavesAccum' = wavesAccum
           /\ wavesSteps' = wavesSteps)]_vars

\* A disturbed field with a nonzero accumulator took an Update of zero.
C13_Witness ==
    /\ LastCallUpdate
    /\ wavesCall.dt = 0
    /\ wavesAccum > 0
    /\ disturbCount > 0
    /\ mCurrSolution # mPrevSolution

\* The cells a Disturb call at the centre of the latest call may change.
ImpulseCells == {<<wavesCall'.row, wavesCall'.col>>}
                    \cup Neighbours(<<wavesCall'.row, wavesCall'.col>>)

\* C14: a Disturb call with a centre at least two cells from every edge and a
\* positive magnitude leaves the height of the target cell strictly greater
\* than before, and changes no cell but the target and its four direct
\* neighbours.
C14_DisturbRaisesTargetOnly ==
    [][DisturbCalled
       => /\ wavesCall'.magnitude > 0
          /\ mCurrSolution'[wavesCall'.row][wavesCall'.col]
                > mCurrSolution[wavesCall'.row][wavesCall'.col]
          /\ \A c \in GridCells \ ImpulseCells :
                mCurrSolution'[c[1]][c[2]] = mCurrSolution[c[1]][c[2]]
          /\ mPrevSolution' = mPrevSolution]_vars

\* A field that has run a step was disturbed at the last column the margin
\* allows.
C14_Witness ==
    /\ wavesCall # NoRecord
    /\ wavesCall.op = "Disturb"
    /\ wavesCall.col = (mNumCols - 1) - DisturbMargin
    /\ wavesCall.row = DisturbMargin
    /\ wavesSteps > 0
    /\ disturbCount > 1

\* C15: after any sequence of valid Disturb and Update calls, no update step
\* (stencil, edge clamping, normal reconstruction) reads or writes a cell
\* outside [0, rows) x [0, columns).
C15_UpdateStaysInGrid == gridTouched \subseteq GridCells

\* An Update ran two steps on a disturbed field and touched the corners.
C15_Witness ==
    /\ LastCallUpdate
    /\ wavesCall.steps = 2
    /\ disturbCount > 0
    /\ <<0, 0>> \in gridTouched
    /\ <<mNumRows - 1, mNumCols - 1>> \in gridTouched
    /\ mCurrSolution[0][0] # 0

\* ------------------------------------------- shutdown and failure properties

\* The members of the application, the ring of frame resources among them,
\* have been released.
RingReleased == pc \in {"Released", "Exited"}

\* C16: when the application is destroyed with a live device, the resources of
\* the ring slots are released only after the GPU has completed every submitted
\* frame: the completion counter has reached the last signalled fence value,
\* and no command list is queued or executing.
C16_FlushBeforeRelease ==
    (RingReleased /\ md3dDeviceLive) =>
        /\ completedValue = mCurrentFence
        /\ \A s \in Slots : Fence[s] <= completedValue /\ ~SlotInFlight(s)
        /\ queue = <<>>
        /\ gpuExec = Null

\* The application was destroyed after a full turn of the ring and has
\* released its members behind the flush of the destructor.
C16_Witness ==
    /\ pc = "Released"
    /\ failed = NoFailure
    /\ framesSubmitted >= gNumFrameResources
    /\ \A s \in Slots : Fence[s] # 0
    /\ completedValue = framesSubmitted + 2

\* Positions of the control thread once it has left the frame loop.
ExitPositions == {"Destructor", "DestructorWait", "Released", "Exited"}

\* C17: a failed step of a frame (fence event registration, allocator or list
\* reset, close, present) is not retried: the control thread leaves the frame
\* loop for good, the frame is not presented, and the process ends with the
\* diagnostic of WinMain.  A frame that does not fail completes all its steps:
\* between frames every started frame was submitted, presented and stamped.
C17_FailureIsFatal ==
    /\ [](failed \in FrameFailures =>
            /\ pc \in ExitPositions
            /\ framesPresented = frameNo - 1)
    /\ []((pc = "Exited" /\ failed \in FrameFailures) => diagnostic)
    /\ []((failed = NoFailure /\ pc \in ({"Tick"} \cup ExitPositions)) =>
            /\ ~diagnostic
            /\ framesSubmitted = frameNo
            /\ framesPresented = frameNo
            /\ frameNo > 0 => Fence[mCurrFrameResource] = frameNo + 1)
    /\ [][failed # NoFailure =>
            /\ failed' = failed
            /\ pc' \in ExitPositions
            /\ framesPresented' = framesPresented
            /\ Fence' = Fence]_vars

\* The second frame was handed to the GPU, its Present failed, and the process
\* has ended with the diagnostic.
C17_Witness ==
    /\ pc = "Exited"
    /\ failed = PresentFailure
    /\ diagnostic
    /\ frameNo = 2
    /\ framesSubmitted = 2
    /\ framesPresented = 1

\* ------------------------------------------------------ frame step properties

\* The steps of one tick in the order of the claim: camera update; rotation
\* and fence wait; material animation; object and material uploads; the pass
\* constants; the wave update with its disturbance, vertex copy and
\* repointing; the reset, recording and submission of the draws with the
\* present; the fence stamp and its signal.
TickOrder ==
    <<"UpdateCamera", "Advance", "FenceCheck", "FenceWait", "AnimateMaterials",
      "UpdateObjectCBs", "UpdateMaterialCBs", "UpdateMainPassCB", "UpdateWaves",
      "DrawReset", "DrawRecord", "Execute", "Stamp", "Signal", "Tick">>

\* The position of step p in the order of a tick.
TickRank(p) == CHOOSE n \in 1 .. Len(TickOrder) : TickOrder[n] = p

\* The contents of the ring slots a frame writes.
slotContents == <<objectCB, materialCB, passCB, wavesVB, cmdAlloc>>

\* C18: the control thread takes the steps of a tick in the stated order,
\* skipping only the fence wait; no slot is written before the rotation and
\* fence wait have returned; the wave vertices are copied after the frame's
\* disturbance and update; a present follows its submission; the fence is
\* stamped only after the frame's commands are submitted.
C18_TickStepOrder ==
    /\ [][(pc' # pc /\ pc \in FramePositions /\ failed' = NoFailure) =>
            \/ TickRank(pc') = TickRank(pc) + 1
            \/ pc = "FenceCheck" /\ pc' = "AnimateMaterials" /\ ~MustWait(mCurrFrameResource)]_vars
    /\ [][slotContents' # slotContents => pc \in SlotWriters]_vars
    /\ [][wavesVB' # wavesVB =>
            /\ pc = "UpdateWaves"
            /\ wavesVB'[mCurrFrameResource].disturbs = disturbCount'
            /\ wavesVB'[mCurrFrameResource].steps = wavesSteps'
            /\ wavesVertexBufferGPU' = mCurrFrameResource]_vars
    /\ [][framesPresented' # framesPresented =>
            /\ pc = "Execute"
            /\ framesSubmitted' = frameNo
            /\ framesPresented' = frameNo]_vars
    /\ [][(Fence' # Fence \/ mCurrentFence' # mCurrentFence) /\ pc \in FramePositions =>
            /\ pc = "Stamp"
            /\ framesSubmitted = frameNo
            /\ framesPresented = frameNo]_vars

\* A frame with a due disturbance ran through the fence wait and all its
\* steps up to the signal of its stamp.
C18_Witness ==
    /\ pc = "Tick"
    /\ frameNo > gNumFrameResources
    /\ disturbArgs # NoRecord
    /\ wavesVB[mCurrFrameResource].disturbs = disturbCount
    /\ Fence[mCurrFrameResource] = mCurrentFence
    /\ framesPresented = frameNo

\* What slot s holds for the GPU: its constant buffers, its wave vertices and
\* its stamped fence value.
SlotState(s) == <<objectCB[s], materialCB[s], passCB[s], wavesVB[s], Fence[s]>>

\* C19: a step of a frame modifies only the current slot: the constant
\* buffers, the wave vertex buffer and the stamped fence value of the other
\* gNumFrameResources - 1 slots are as they were.
C19_OnlyCurrentSlotWritten ==
    [][\A s \in Slots : s # mCurrFrameResource' =>
            /\ SlotState(s)' = SlotState(s)
            /\ cmdAlloc'[s] = cmdAlloc[s]]_vars

\* A frame has written its slot while the other two slots hold the different
\* constants and vertices of the two frames before it.
C19_Witness ==
    /\ pc = "Signal"
    /\ frameNo > gNumFrameResources
    /\ \A s \in Slots \ {mCurrFrameResource} :
          /\ passCB[s] # NoRecord
          /\ passCB[s] # passCB[mCurrFrameResource]
          /\ wavesVB[s] # wavesVB[mCurrFrameResource]
          /\ Fence[s] # 0
          /\ Fence[s] < Fence[mCurrFrameResource]

\* C20: every UpdateWaves writes exactly one vertex record per index
\* 0 .. VertexCount - 1 into the wave vertex buffer of the current slot and
\* none at or beyond the capacity of the buffer; while the frame's draws are
\* recorded the wave render item refers to the buffer of the current slot,
\* which holds the vertices of this frame, and the recorded wave draw of every
\* slot reads the buffer of that slot.
C20_WaveCopyCompleteAndBound ==
    /\ \A s \in Slots : wavesVB[s] # NoRecord =>
          /\ wavesVB[s].count = WavesVertexCount
          /\ wavesVB[s].last = WavesVertexCount - 1
          /\ wavesVB[s].last < WavesVBCapacity
    /\ pc \in {"DrawReset", "DrawRecord", "Execute"} =>
          /\ wavesVertexBufferGPU = mCurrFrameResource
          /\ wavesVB[mCurrFrameResource] # NoRecord
          /\ wavesVB[mCurrFrameResource].steps = wavesSteps
          /\ wavesVB[mCurrFrameResource].disturbs = disturbCount
    /\ \A s \in Slots : wavesDrawnVB[s] # Null => wavesDrawnVB[s] = s

\* The draws of a frame are recorded against a reused slot: the wave item
\* refers to that slot's buffer while the GPU still executes the frame before.
C20_Witness ==
    /\ pc = "Execute"
    /\ frameNo > gNumFrameResources
    /\ wavesDrawnVB[mCurrFrameResource] = mCurrFrameResource
    /\ wavesVB[mCurrFrameResource].count = WavesRowCount * WavesColumnCount
    /\ gpuExec \in Slots \ {mCurrFrameResource}
    /\ wavesVB[gpuExec] # wavesVB[mCurrFrameResource]

\* ------------------------------------------------------ material properties

\* The control thread has just returned from AnimateMaterials.
AfterAnimateMaterials == pc = AfterUpdateCall("AnimateMaterials")

\* C21: after every call of AnimateMaterials, whatever the frame length, both
\* scroll offsets of the water material lie in [0, 1) and the water material's
\* dirty counter equals gNumFrameResources.
C21_WaterOffsetsWrapped ==
    AfterAnimateMaterials =>
        /\ matTransform[MatWater][1] >= 0 /\ matTransform[MatWater][1] < TuOne
        /\ matTransform[MatWater][2] >= 0 /\ matTransform[MatWater][2] < TvOne
        /\ matDirty[MatWater] = gNumFrameResources

\* -------------------------------------------------------- camera properties

\* The effect of the buttons on the orbit: a move with the left button changes
\* no radius, a move with the right button alone changes no angle, a move with
\* no button and a button press change neither.
ButtonsSeparateOrbit ==
    [][mouseEvents' = mouseEvents + 1 =>
          /\ MK_LBUTTON \in mouseButtons' => mRadius' = mRadius
          /\ MK_LBUTTON \notin mouseButtons' => (mTheta' = mTheta /\ mPhi' = mPhi)
          /\ mouseButtons' = {} => mRadius' = mRadius]_vars

\* C22 as stated: after any sequence of mouse events the polar angle lies in
\* the open interval (0.1, Pi - 0.1) and the radius in [5, 150]; a left-button
\* move changes only the angles, a right-button move only the radius.
C22_PhiInOpenInterval ==
    /\ [](mPhi > PhiMargin /\ mPhi < Pi - PhiMargin)
    /\ [](mRadius >= RadiusMin /\ mRadius <= RadiusMax)
    /\ ButtonsSeparateOrbit

\* C22, amended: the polar angle lies in the closed interval [0.1, Pi - 0.1],
\* both ends included, and the radius in [5, 150]; a left-button move changes
\* only the angles, a move with the right button alone only the radius.
C22_OrbitClamped ==
    /\ [](mPhi >= PhiMargin /\ mPhi <= Pi - PhiMargin)
    /\ [](mRadius >= RadiusMin /\ mRadius <= RadiusMax)
    /\ ButtonsSeparateOrbit

\* Mouse moves have driven the polar angle onto its lower limit and the radius
\* onto its upper limit.
C22_Witness ==
    /\ mPhi = PhiMargin
    /\ mRadius = RadiusMax
    /\ mouseButtons = {MK_RBUTTON}
    /\ mTheta # ThetaInit

\* ---------------------------------------------------- fence value properties

\* C23: whenever Update waits, every slot has been submitted, the newly
\* current slot carries the smallest stamp of all slots (the stamp of the
\* frame gNumFrameResources frames back), and no other slot has an older
\* frame in flight.
C23_WaitsOnOldestSlot ==
    pc = "FenceWait" =>
        /\ \A s \in Slots : Fence[s] # 0
        /\ \A s \in Slots \ {mCurrFrameResource} :
              Fence[mCurrFrameResource] < Fence[s]
        /\ Fence[mCurrFrameResource] = (mCurrentFence - gNumFrameResources) + 1
        /\ \A s \in Slots \ {mCurrFrameResource} :
              SlotInFlight(s) => Fence[s] > Fence[mCurrFrameResource]

\* Update waits on a slot while the frames of all three slots are unfinished.
C23_Witness ==
    /\ pc = "FenceWait"
    /\ \A s \in Slots : Fence[s] > completedValue
    /\ SlotInFlight(mCurrFrameResource)
    /\ frameNo > gNumFrameResources + 1

\* The last fence value handed to mCommandQueue->Signal: Draw increments
\* mCurrentFence one step before it signals the new value.
LastSignalled == IF pc = "Signal" THEN mCurrentFence - 1 ELSE mCurrentFence

\* C24: the CPU fence counter grows by exactly one at a time, once per
\* submitted frame; the value stamped on the slot of a frame is the value then
\* signalled to the queue for that frame; nonzero stamps of distinct slots are
\* distinct; the GPU completion counter never decreases and never exceeds the
\* last signalled value.
C24_FenceValuesMonotonic ==
    /\ [][mCurrentFence' # mCurrentFence => mCurrentFence' = mCurrentFence + 1]_vars
    /\ [][pc = "Stamp" /\ pc' = "Signal" =>
            /\ mCurrentFence' = mCurrentFence + 1
            /\ Fence'[mCurrFrameResource] = mCurrentFence']_vars
    /\ [][pc = "Signal" /\ pc' # pc =>
            /\ queue' = Append(queue, SignalCmd(Fence[mCurrFrameResource]))
            /\ Fence[mCurrFrameResource] = mCurrentFence]_vars
    /\ [](pc = "Tick" /\ failed = NoFailure => mCurrentFence = framesSubmitted + 1)
    /\ [](\A s, t \in Slots : (s # t /\ Fence[s] # 0) => Fence[s] # Fence[t])
    /\ [][completedValue' >= completedValue]_vars
    /\ [](completedValue <= LastSignalled)

\* Four frames are stamped and signalled, and the GPU is between two of them.
C24_Witness ==
    /\ pc = "Tick"
    /\ framesSubmitted > gNumFrameResources
    /\ \A s \in Slots : Fence[s] # 0
    /\ completedValue > 1
    /\ completedValue < mCurrentFence - 1

\* ------------------------------------------------------------------ liveness

\* The frame loop with a GPU that eventually starts, finishes and signals the
\* work in its queue, and a control thread that keeps running: D3DApp::Run
\* calls Update and Draw in a loop, and WaitForSingleObject returns once the
\* event is set.
SpecLive ==
    /\ Spec
    /\ WF_vars(GpuBegin)
    /\ WF_vars(GpuEnd)
    /\ WF_vars(GpuSignal)
    /\ WF_vars(FrameStep)

\* The Signal of fence value v is on the queue or already reached.
SignalPending(v) ==
    \/ completedValue >= v
    \/ \E k \in 1 .. Len(queue) : queue[k] = SignalCmd(v)

\* C25: on a GPU that eventually completes every signalled fence value, every
\* fence wait of Update returns, the frame loop never stays inside a frame,
\* and every started frame is submitted unless one of its calls fails; the
\* stamp a wait is on has its Signal on the queue already.
C25_RingLiveness ==
    /\ [](pc = "FenceWait" => SignalPending(Fence[mCurrFrameResource]))
    /\ (pc = "FenceWait") ~> (pc = "AnimateMaterials")
    /\ (pc \in FramePositions) ~> (pc = "Tick" \/ failed # NoFailure)
    /\ (pc = "FenceCheck") ~> (framesSubmitted = frameNo \/ failed # NoFailure)

\* Update waits on a stamp whose Signal is still on the queue, behind the
\* command list of the same slot.
C25_Witness ==
    /\ pc = "FenceWait"
    /\ completedValue < Fence[mCurrFrameResource]
    /\ \E k \in 1 .. Len(queue) : queue[k] = SignalCmd(Fence[mCurrFrameResource])
    /\ \E k \in 1 .. Len(queue) : queue[k] = ExecCmd(mCurrFrameResource)

\* ---------------------------------------------------- freshness at draw time

\* Positions of a frame at which Draw records and submits its command list.
DrawPositions == {"DrawRecord", "Execute"}

\* C26: when Draw records a frame's commands, the current frame resource holds
\* the current object constants of every render item and the current material
\* constants of every material; and an entity whose dirty counter is zero has
\* its latest record in every frame resource.
C26_FreshAtDraw ==
    /\ pc \in DrawPositions =>
           /\ \A i \in Ritems :
                  objectCB[mCurrFrameResource][i] = ObjectConstants(i)
           /\ \A m \in Materials :
                  materialCB[mCurrFrameResource][m] = matTransform[m]
    /\ \A i \in Ritems :
           ritemDirty[i] = 0 => \A s \in Slots : objectCB[s][i] = ObjectConstants(i)
    /\ \A m \in Materials :
           matDirty[m] = 0 => \A s \in Slots : materialCB[s][m] = matTransform[m]

\* Draw records a frame after the ring has wrapped: the static entities are
\* clean, the water offsets have moved, and another frame resource still
\* holds older water constants.
C26_Witness ==
    /\ pc = "DrawRecord"
    /\ frameNo > gNumFrameResources
    /\ \A i \in Ritems : ritemDirty[i] = 0
    /\ \A m \in StaticMaterials : matDirty[m] = 0
    /\ matTransform[MatWater] # <<0, 0>>
    /\ \E s \in Slots \ {mCurrFrameResource} :
           materialCB[s][MatWater] # matTransform[MatWater]

\* ------------------------------------------------------ dirty counter range

\* Positions of a frame after its UpdateMaterialCBs call, up to the end of Draw.
AfterMaterialUpload ==
    {"UpdateMainPassCB", "UpdateWaves", "DrawReset", "DrawRecord", "Execute",
     "Stamp", "Signal"}

\* A frame has run to its end and the loop is back at the timer tick.
FrameEnded == pc = "Tick" /\ frameNo > 0 /\ failed = NoFailure

\* C27: every dirty counter is an integer from 0 to gNumFrameResources in every
\* reachable state; the water material's counter is gNumFrameResources - 1
\* from UpdateMaterialCBs to the end of the frame, and every UpdateMaterialCBs
\* call writes the water record into the current frame resource, so the water
\* record has been uploaded once per frame.
C27_DirtyCountersInRange ==
    /\ [](/\ \A i \in Ritems : ritemDirty[i] \in 0 .. gNumFrameResources
          /\ \A m \in Materials : matDirty[m] \in 0 .. gNumFrameResources)
    /\ []((pc \in AfterMaterialUpload \/ FrameEnded) =>
              /\ matDirty[MatWater] = gNumFrameResources - 1
              /\ WritesUpTo(matWrites, MatWater, gNumFrameResources - 1) = frameNo)
    /\ [][(pc = "UpdateMaterialCBs" /\ pc' # pc /\ failed' = NoFailure) =>
              /\ matDirty[MatWater] = gNumFrameResources
              /\ materialCB'[mCurrFrameResource][MatWater] = matTransform[MatWater]
              /\ matWrites'[mCurrFrameResource][MatWater]
                     = matWrites[mCurrFrameResource][MatWater] + 1]_vars

\* A frame past the first turn of the ring has ended: the static entities are
\* clean and the water material is still pending for two frame resources.
C27_Witness ==
    /\ FrameEnded
    /\ frameNo > gNumFrameResources
    /\ matDirty[MatWater] = gNumFrameResources - 1
    /\ \A i \in Ritems : ritemDirty[i] = 0
    /\ \A s \in Slots : matWrites[s][MatWater] >= 1

\* -------------------------------------------------- disturbance base time

\* The step just taken is a call of UpdateWaves.
UpdateWavesCalled == pc = "UpdateWaves" /\ pc' # pc

\* C28: a call of UpdateWaves issues one disturbance and moves its base time
\* on by a quarter second exactly when the total time is a quarter second or
\* more past the base time, and otherwise issues none and leaves the base
\* time; nothing else disturbs the field or moves the base time, so there is
\* at most one disturbance per frame, and the base time never passes the
\* total time.
C28_DisturbBaseTime ==
    /\ [][UpdateWavesCalled =>
              IF (totalTime - t_base) >= DisturbPeriod
              THEN /\ disturbCount' = disturbCount + 1
                   /\ t_base' = t_base + DisturbPeriod
                   /\ disturbArgs' # NoRecord
              ELSE /\ disturbCount' = disturbCount
                   /\ t_base' = t_base
                   /\ disturbArgs' = NoRecord]_vars
    /\ [][~UpdateWavesCalled =>
              /\ disturbCount' = disturbCount
              /\ t_base' = t_base]_vars
    /\ [](/\ t_base <= totalTime
          /\ t_base = DisturbPeriod * disturbCount
          /\ disturbCount <= frameNo)

\* UpdateWaves has returned without a disturbance, after two frames with one,
\* the base time having caught up with the total time.
C28_Witness ==
    /\ pc = "DrawReset"
    /\ disturbArgs = NoRecord
    /\ disturbCount >= 2
    /\ t_base = totalTime

\* ------------------------------------------------------- start of the ring

\* The number of frames whose Draw has reached the stamp of line 331: every
\* frame before the current one, and the current one from the stamp on unless
\* one of its calls failed before.
StampedFrames ==
    IF frameNo = 0 THEN 0
    ELSE IF \/ pc \in {"Signal", "Tick", "UpdateCamera", "Advance"}
            \/ (pc \in ExitPositions /\ failed = NoFailure)
         THEN frameNo
         ELSE frameNo - 1

\* The frame resources Draw has stamped.
StampedSlots == {slotLog[k] : k \in 1 .. StampedFrames}

\* C29: the first frame uses the frame resource of index 1; in the first
\* gNumFrameResources frames the frame resource that becomes current has the
\* stamp 0 and Update does not wait; only Draw's stamp changes a slot's
\* fence, to a value of at least 1, so a fence of 0 means exactly that Draw
\* has never stamped the slot.
C29_RingStartUp ==
    /\ [](frameNo >= 1 => slotLog[1] = 1)
    /\ []((pc = "FenceCheck" /\ frameNo <= gNumFrameResources)
              => Fence[mCurrFrameResource] = 0)
    /\ [](pc = "FenceWait" => frameNo > gNumFrameResources)
    /\ [][Fence' # Fence =>
              /\ pc = "Stamp"
              /\ Fence'[mCurrFrameResource] >= 1
              /\ \A s \in Slots \ {mCurrFrameResource} : Fence'[s] = Fence[s]]_vars
    /\ [](\A s \in Slots : Fence[s] = 0 <=> s \notin StampedSlots)

\* The last frame of the first turn of the ring: index 0 becomes current with
\* the stamp 0 while the two other frame resources are stamped.
C29_Witness ==
    /\ pc = "FenceCheck"
    /\ frameNo = gNumFrameResources
    /\ mCurrFrameResourceIndex = 0
    /\ Fence[0] = 0
    /\ \A s \in Slots \ {0} : Fence[s] >= 1

\* --------------------------------------------------- constant-buffer indices

\* The entries of the sequence q are pairwise distinct and all below Len(q).
IndexBijection(q) ==
    /\ \A a \in 1 .. Len(q), b \in 1 .. Len(q) : a # b => q[a] # q[b]
    /\ \A a \in 1 .. Len(q) : q[a] >= 0 /\ q[a] < Len(q)

\* The places (layer, position) at which mRitemLayer holds the item i.
LayerPlaces(i) ==
    {<<layer, k>> \in (0 .. 3) \X (1 .. NumRitems) :
        k <= Len(RitemLayer(layer)) /\ RitemLayer(layer)[k] = i}

\* Every render item is held by one place of one layer.
OneLayerEach ==
    \A k \in 1 .. Len(AllRitems) : Cardinality(LayerPlaces(AllRitems[k])) = 1

\* The indices BuildRenderItems and BuildMaterials hand out.
BuiltIndices ==
    /\ IndexBijection(AllRitems)
    /\ IndexBijection(BuiltMaterials)
    /\ OneLayerEach

\* The number of draws of the item i in the command list draws.
DrawsOf(draws, i) == Cardinality({k \in 1 .. Len(draws) : draws[k] = i})

\* C30: the ObjCBIndex values of the render items are pairwise distinct and
\* below the number of render items, the MatCBIndex values of the materials
\* are pairwise distinct and below the number of materials, and every render
\* item is in exactly one layer; every frame resource has one object record per
\* render item and one material record per material, so the record a draw
\* addresses exists, and a recorded command list draws every item once.
C30_IndexBijection ==
    /\ BuiltIndices
    /\ \A s \in Slots :
           /\ DOMAIN objectCB[s] = 0 .. (Len(AllRitems) - 1)
           /\ DOMAIN materialCB[s] = 0 .. (Len(BuiltMaterials) - 1)
    /\ \A s \in Slots : \A k \in 1 .. Len(cmdAlloc[s]) :
           /\ cmdAlloc[s][k] \in DOMAIN objectCB[s]
           /\ RitemMat(cmdAlloc[s][k]) \in DOMAIN materialCB[s]
    /\ pc \in {"Execute", "Stamp", "Signal"} =>
           \A k \in 1 .. Len(AllRitems) :
               DrawsOf(cmdAlloc[mCurrFrameResource], AllRitems[k]) = 1

\* Every frame resource has been submitted with a full command list and holds
\* a record of its own for every render item.
C30_Witness ==
    /\ pc = "Stamp"
    /\ frameNo >= gNumFrameResources
    /\ \A s \in Slots : Len(cmdAlloc[s]) = Len(AllRitems)
    /\ \A s \in Slots : \A i \in Ritems : objectCB[s][i] = ObjectConstants(i)

============================================================================
